---- MODULE Spec2Model ----
(***************************************************************************)
(* Model of the MCQ extraction engine of backend/app/docx_extract.py:      *)
(* the paragraph classifier, the list-level resolver, the bold-answer      *)
(* detector and the assembler loop of parse_docx_mcq with its validation   *)
(* pass.  Strings are sequences of one-character strings, so that          *)
(* stripping, pattern matching, slicing and concatenation are computed.    *)
(***************************************************************************)
EXTENDS Integers, Sequences, FiniteSets, TLC

(* ------------------------------------------------------------------ *)
(* Bounds of the model                                                 *)
(* ------------------------------------------------------------------ *)

\* longest document (number of paragraphs) that Init draws
MaxParas == 4

(* ------------------------------------------------------------------ *)
(* Python values                                                       *)
(* ------------------------------------------------------------------ *)

\* current_q = None (questions are referred to by their 1-based position)
None == 0

\* last_kind = None
NoKind == "None"

\* an optional int: None is the empty sequence, the int n is <<n>>
NoLevel == <<>>

Level(n) == <<n>>

\* the outcome of a call that raises ValueError instead of returning
ValueError == <<"ValueError", "int">>

(* ------------------------------------------------------------------ *)
(* Characters and strings                                              *)
(* ------------------------------------------------------------------ *)

UpperChars == <<"A","B","C","D","E","F","G","H","I","J","K","L","M",
                "N","O","P","Q","R","S","T","U","V","W","X","Y","Z">>

LowerChars == <<"a","b","c","d","e","f","g","h","i","j","k","l","m",
                "n","o","p","q","r","s","t","u","v","w","x","y","z">>

DigitChars == <<"0","1","2","3","4","5","6","7","8","9">>

\* str.lower() on one character
LowerChar(c) ==
    IF \E i \in 1..26 : UpperChars[i] = c
    THEN LowerChars[CHOOSE i \in 1..26 : UpperChars[i] = c]
    ELSE c

\* str.lower()
Lower(s) == [i \in 1..Len(s) |-> LowerChar(s[i])]

\* the characters \s matches and str.strip() removes
IsSpace(c) == c \in {" ", "\t", "\n"}

\* the decimal digits: the characters \d matches and int() parses
IsDigit(c) == \E i \in 1..10 : DigitChars[i] = c

\* the character U+00B2 (superscript two): a digit for str.isdigit(), not
\* for int()
SuperscriptTwo == "sup2"

\* the characters str.isdigit() accepts
IsDigitChar(c) == IsDigit(c) \/ c = SuperscriptTwo

DigitVal(c) == (CHOOSE i \in 1..10 : DigitChars[i] = c) - 1

Min(a, b) == IF a <= b THEN a ELSE b

\* s[i:] for a 0-based i
From(s, i) == SubSeq(s, i + 1, Len(s))

\* s[:n]
Prefix(s, n) == SubSeq(s, 1, Min(n, Len(s)))

\* str.startswith
StartsWith(s, pre) == Len(s) >= Len(pre) /\ SubSeq(s, 1, Len(pre)) = pre

\* first 0-based position >= i of s that holds no white space
RECURSIVE SkipSpaces(_, _)
SkipSpaces(s, i) ==
    IF i < Len(s) /\ IsSpace(s[i + 1]) THEN SkipSpaces(s, i + 1) ELSE i

\* first 0-based position >= i of s that holds no digit
RECURSIVE SkipDigits(_, _)
SkipDigits(s, i) ==
    IF i < Len(s) /\ IsDigit(s[i + 1]) THEN SkipDigits(s, i + 1) ELSE i

\* str.rstrip()
RECURSIVE RStrip(_)
RStrip(s) ==
    IF Len(s) > 0 /\ IsSpace(s[Len(s)]) THEN RStrip(SubSeq(s, 1, Len(s) - 1)) ELSE s

\* str.strip()
Strip(s) == RStrip(From(s, SkipSpaces(s, 0)))

\* int(s) for a string of digits
RECURSIVE ParseInt(_)
ParseInt(s) ==
    IF Len(s) = 0 THEN 0
    ELSE 10 * ParseInt(SubSeq(s, 1, Len(s) - 1)) + DigitVal(s[Len(s)])

\* str(n) for n >= 0, as an f-string formats it
RECURSIVE IntToStr(_)
IntToStr(n) ==
    IF n < 10 THEN <<DigitChars[n + 1]>>
    ELSE IntToStr(n \div 10) \o <<DigitChars[(n % 10) + 1]>>

\* str.isdigit(): non-empty and digits only
IsDigitStr(s) == Len(s) > 0 /\ \A i \in 1..Len(s) : IsDigitChar(s[i])

\* int(s) returns for s: decimal digits only (s is not empty and holds no
\* white space or sign here)
IntParses(s) == Len(s) > 0 /\ \A i \in 1..Len(s) : IsDigit(s[i])

\* str.split()[-1] for a string that is not all white space
RECURSIVE LastTokenStart(_, _)
LastTokenStart(s, i) ==
    IF i > 0 /\ ~IsSpace(s[i]) THEN LastTokenStart(s, i - 1) ELSE i

LastToken(s) == From(RStrip(s), LastTokenStart(RStrip(s), Len(RStrip(s))))

(* ------------------------------------------------------------------ *)
(* Q_RE and OPT_RE                                                     *)
(* ------------------------------------------------------------------ *)

\* mutant of WordNumberEnd: the flag re.I is missing
WordNumberEndCaseSensitive(s, word) ==
    IF StartsWith(s, word)
    THEN LET j == SkipSpaces(s, Len(word))
             k == SkipDigits(s, j)
         IN  IF k > j THEN k ELSE 0
    ELSE 0

\* end of (word \s* \d+) at the start of the lower-cased s, or 0
WordNumberEnd(s, word) ==
    IF StartsWith(Lower(s), word)
    THEN LET j == SkipSpaces(s, Len(word))
             k == SkipDigits(s, j)
         IN  IF k > j THEN k ELSE 0
    ELSE 0

\* end of (\d+ [.)]) at the start of s, or 0
NumberDotEnd(s) ==
    LET k == SkipDigits(s, 0)
    IN  IF k > 0 /\ k < Len(s) /\ s[k + 1] \in {".", ")"} THEN k + 1 ELSE 0

\* end of the whole match m of an alternative that ended at e: \s+ follows
WithSpaces(s, e) ==
    IF e > 0 /\ SkipSpaces(s, e) > e THEN SkipSpaces(s, e) ELSE 0

\* Q_RE.match(s): the 0-based end of the match, or 0 for no match
Q_RE_match(s) ==
    LET a1 == WithSpaces(s, WordNumberEnd(s, <<"q","u","e","s","t","i","o","n">>))
        a2 == WithSpaces(s, WordNumberEnd(s, <<"q">>))
        a3 == WithSpaces(s, NumberDotEnd(s))
    IN  IF a1 > 0 THEN a1 ELSE IF a2 > 0 THEN a2 ELSE a3

\* Q_RE.sub("", s)
Q_RE_sub(s) == From(s, Q_RE_match(s))

\* OPT_RE.match(s): the 0-based end of the match, or 0 for no match
OPT_RE_match(s) ==
    IF Len(s) >= 2
       /\ LowerChar(s[1]) \in {"a","b","c","d","e","f","g","h"}
       /\ s[2] \in {".", ")"}
    THEN WithSpaces(s, 2)
    ELSE 0

\* OPT_RE.sub("", s)
OPT_RE_sub(s) == From(s, OPT_RE_match(s))

(* ------------------------------------------------------------------ *)
(* Paragraphs: [ilvl, style, runs, text]                               *)
(*   ilvl  : pPr.numPr.ilvl.val as an optional int                     *)
(*   style : paragraph.style.name                                      *)
(*   runs  : paragraph.runs, each [text, bold]                         *)
(*   text  : paragraph.text, the concatenation of the runs' texts      *)
(* ------------------------------------------------------------------ *)

Run(text, bold) == [text |-> text, bold |-> bold]

RECURSIVE ConcatRuns(_)
ConcatRuns(runs) ==
    IF Len(runs) = 0 THEN <<>> ELSE Head(runs).text \o ConcatRuns(Tail(runs))

Para(ilvl, style, runs) ==
    [ilvl |-> ilvl, style |-> style, runs |-> runs, text |-> ConcatRuns(runs)]

get_list_level(paragraph) ==
    IF paragraph.ilvl # NoLevel
    THEN paragraph.ilvl
    ELSE LET style_name == Lower(paragraph.style)
         IN  IF StartsWith(style_name, <<"l","i","s","t"," ","n","u","m","b","e","r">>)
             THEN IF IsDigitStr(LastToken(style_name))
                  THEN IF IntParses(LastToken(style_name))
                       THEN Level(ParseInt(LastToken(style_name)) - 1)
                       ELSE ValueError
                  ELSE Level(0)
             ELSE NoLevel

\* mutant of is_correct_option: the text of the run is not looked at
is_correct_option_any_bold(paragraph) ==
    \E i \in 1..Len(paragraph.runs) : paragraph.runs[i].bold

is_correct_option(paragraph) ==
    \E i \in 1..Len(paragraph.runs) :
        /\ Len(Strip(paragraph.runs[i].text)) > 0
        /\ paragraph.runs[i].bold

\* mutant of classify_paragraph: the patterns are consulted before the level
classify_paragraph_lexical_first(p) ==
    LET text == Strip(p.text)
        lvl  == get_list_level(p)
    IN  IF Len(text) = 0 THEN [kind |-> "EMPTY", text |-> <<>>]
        ELSE IF lvl = ValueError THEN [kind |-> "ValueError", text |-> <<>>]
        ELSE IF Q_RE_match(text) > 0
             THEN [kind |-> "QUESTION", text |-> Strip(Q_RE_sub(text))]
        ELSE IF OPT_RE_match(text) > 0
             THEN [kind |-> "OPTION", text |-> Strip(OPT_RE_sub(text))]
        ELSE IF lvl = Level(0) THEN [kind |-> "QUESTION", text |-> text]
        ELSE IF lvl = Level(1) THEN [kind |-> "OPTION", text |-> text]
        ELSE [kind |-> "OTHER", text |-> text]

\* the pair (kind, text); the text of an EMPTY paragraph (None) is <<>>; the
\* kind "ValueError" stands for the exception get_list_level lets through
classify_paragraph(p) ==
    LET text == Strip(p.text)
        lvl  == get_list_level(p)
    IN  IF Len(text) = 0 THEN [kind |-> "EMPTY", text |-> <<>>]
        ELSE IF lvl = ValueError THEN [kind |-> "ValueError", text |-> <<>>]
        ELSE IF lvl = Level(0) THEN [kind |-> "QUESTION", text |-> text]
        ELSE IF lvl = Level(1) THEN [kind |-> "OPTION", text |-> text]
        ELSE IF Q_RE_match(text) > 0
             THEN [kind |-> "QUESTION", text |-> Strip(Q_RE_sub(text))]
        ELSE IF OPT_RE_match(text) > 0
             THEN [kind |-> "OPTION", text |-> Strip(OPT_RE_sub(text))]
        ELSE [kind |-> "OTHER", text |-> text]

(* ------------------------------------------------------------------ *)
(* The documents Init draws                                            *)
(* ------------------------------------------------------------------ *)

StyleNormal == <<"N","o","r","m","a","l">>

StyleListNumber == <<"L","i","s","t"," ","N","u","m","b","e","r">>

StyleListNumber2 == StyleListNumber \o <<" ","2">>

Ten == <<"a","b","c","d","e","f","g","h","i","j">>

\* a text of 41 characters, one more than the orphan warning keeps
LongText == Ten \o Ten \o Ten \o Ten \o <<"k">>

\* white space only, in a bold run: EMPTY
P_Blank == Para(NoLevel, StyleNormal, <<Run(<<" ">>, TRUE)>>)

\* numbering level 0, with a question mark: QUESTION
P_Ask == Para(Level(0), StyleNormal, <<Run(<<"2","+","2","?">>, FALSE)>>)

\* style "List Number", bold, no question mark, no numbering: QUESTION
P_Red == Para(NoLevel, StyleListNumber, <<Run(<<"r","e","d">>, TRUE)>>)

\* manual numbering, no list metadata, no question mark: QUESTION "Sky"
P_Num == Para(NoLevel, StyleNormal,
              <<Run(<<"1","."," ">>, FALSE), Run(<<"S","k","y">>, FALSE)>>)

\* style "List Number 2", bold: OPTION, correct
P_Four == Para(NoLevel, StyleListNumber2, <<Run(<<"4">>, TRUE)>>)

\* manual lettering, a long text, not bold: OPTION with the text LongText
P_Long == Para(NoLevel, StyleNormal, <<Run(<<"b",")"," "," ">> \o LongText, FALSE)>>)

\* numbering level 2, bold: OTHER
P_More == Para(Level(2), StyleNormal, <<Run(<<"e","t","c">>, TRUE)>>)

\* style "List Number" followed by a superscript two: int() raises
P_Sup == Para(NoLevel, StyleListNumber \o <<" ", SuperscriptTwo>>,
              <<Run(<<"x">>, FALSE)>>)

Samples == {P_Blank, P_Ask, P_Red, P_Num, P_Four, P_Long, P_More, P_Sup}

(* ------------------------------------------------------------------ *)
(* The paragraphs the classifier specification draws                   *)
(* ------------------------------------------------------------------ *)

WideLevels == {NoLevel, Level(0), Level(1), Level(2)}

WideStyles ==
    {StyleNormal, StyleListNumber, StyleListNumber2,
     <<"l","i","s","t"," ","n","u","m","b","e","r"," ","3">>,
     <<"L","i","s","t"," ","N","u","m","b","e","r","2">>,
     StyleListNumber \o <<" ", SuperscriptTwo>>,
     <<"L","i","s","t"," ","B","u","l","l","e","t">>}

WideTexts ==
    {<<"1","."," ","x">>,
     <<"2",")"," ","y","?">>,
     <<"Q","u","e","s","t","i","o","n"," ","3"," ","z">>,
     <<"q","4"," ","w">>,
     <<"Q"," ","5"," ","v">>,
     <<"q","6","w">>,
     <<"1",".","x">>,
     <<"A","."," ","p">>,
     <<"h",")"," ","r">>,
     <<"i",")"," ","s">>,
     <<"w","o","r","d">>,
     <<" "," ">>,
     <<" ","B",")"," ","t"," ">>}

\* one run, bold or not, for every text; runs whose bold part is white space
\* or empty; a bold run after a plain lettering prefix; no run at all
WideRuns ==
    {<<Run(t, b)>> : t \in WideTexts, b \in BOOLEAN}
    \cup {<<Run(<<" ">>, TRUE), Run(<<"x">>, FALSE)>>,
          <<Run(<<>>, TRUE), Run(<<"n">>, FALSE)>>,
          <<Run(<<"A",")"," ">>, FALSE), Run(<<"p">>, TRUE)>>,
          <<>>}

WideInputs ==
    {Para(l, st, rs) : l \in WideLevels, st \in WideStyles, rs \in WideRuns}

\* a document of one paragraph, alone or after a question
WideDocs == {<<q>> : q \in WideInputs} \cup {<<P_Ask, q>> : q \in WideInputs}

\* classify_paragraph is pure: its results for the paragraphs of the documents
ClassifyTable == [s \in Samples \cup WideInputs |-> classify_paragraph(s)]

\* kind, text = classify_paragraph(q)
Classified(q) == ClassifyTable[q]

\* the documents: the loop reads nothing after a paragraph whose
\* classification raises, so such a paragraph is the last one
Docs ==
    LET clean == UNION {[1..n -> Samples \ {P_Sup}] : n \in 0..MaxParas}
    IN  clean \cup {Append(d, P_Sup) : d \in {c \in clean : Len(c) < MaxParas}}

(* ------------------------------------------------------------------ *)
(* State of one call of parse_docx_mcq                                 *)
(* ------------------------------------------------------------------ *)

VARIABLES
    paragraphs,  \* doc.paragraphs
    idx,         \* number of paragraphs the for loop has consumed
    pc,          \* "loop", "validate", "done", or "error" (an exception left)
    draft,       \* [title, questions, warnings]
    current_q,   \* position in draft.questions of the dict current_q refers to
    last_kind,   \* "QUESTION", "OPTION" or NoKind
    vi,          \* number of questions the validation loop has visited
    trace,       \* history: the branch each consumed paragraph took
    call,        \* which call of parse_docx_mcq the variables above belong to
    suspended,   \* the frames of the calls that are not running now
    sessions,    \* the rows of table quiz_sessions, a row's id its position
    responses,   \* the rows of table responses
    request,     \* the play request handled last
    reply        \* its HTTP status and the session of its body

vars == <<paragraphs, idx, pc, draft, current_q, last_kind, vi, trace,
          call, suspended, sessions, responses, request, reply>>

\* no play request has been handled
NoRequest ==
    [op |-> "none", quiz_id |-> "-", session_id |-> None, option_id |-> "-",
     question_id |-> "-"]

NoReply == [status |-> 0, session |-> None]

\* the store and the play requests before any request
NoPlay ==
    /\ sessions = <<>>
    /\ responses = <<>>
    /\ request = NoRequest
    /\ reply = NoReply

Init ==
    /\ paragraphs \in Docs
    /\ idx = 0
    /\ pc = "loop"
    /\ draft = [title |-> "Imported Quiz", questions |-> <<>>, warnings |-> <<>>]
    /\ current_q = None
    /\ last_kind = NoKind
    /\ vi = 0
    /\ trace = <<>>
    /\ call = 1
    /\ suspended = <<>>
    /\ NoPlay

\* one paragraph from a wide set, for the classifier, the resolver and the
\* detector
InitClassify ==
    /\ paragraphs \in WideDocs
    /\ idx = 0
    /\ pc = "loop"
    /\ draft = [title |-> "Imported Quiz", questions |-> <<>>, warnings |-> <<>>]
    /\ current_q = None
    /\ last_kind = NoKind
    /\ vi = 0
    /\ trace = <<>>
    /\ call = 1
    /\ suspended = <<>>
    /\ NoPlay

\* the paragraph the loop is about to consume
InLoop == pc = "loop" /\ idx < Len(paragraphs)

p == paragraphs[idx + 1]

(* ------------------------------------------------------------------ *)
(* The body of the for loop over doc.paragraphs                        *)
(* ------------------------------------------------------------------ *)

\* mutant of looks_like_question: the numbering pattern is not consulted
looks_like_question_mark_only(text, raw) ==
    \E i \in 1..Len(text) : text[i] = "?"

\* "?" in text or Q_RE.match(p.text.strip())
looks_like_question(text, raw) ==
    \/ \E i \in 1..Len(text) : text[i] = "?"
    \/ Q_RE_match(Strip(raw)) > 0

\* mutant of Reclassify: the heuristic is left out
ReclassifyNever(kind, text, raw, cur) == kind

\* the kind after the heuristic for bullet-only lists
Reclassify(kind, text, raw, cur) ==
    IF kind = "QUESTION" /\ cur # None
    THEN IF ~looks_like_question(text, raw) THEN "OPTION" ELSE kind
    ELSE kind

\* the kind the if/elif/else chain dispatches on for paragraph p
EffectiveKind ==
    LET c == Classified(p)
    IN  Reclassify(c.kind, c.text, p.text, current_q)

\* number of characters of the option text an orphan warning keeps
OrphanTextLen == 40

OrphanPrefix == <<"O","p","t","i","o","n"," ","w","i","t","h","o","u","t"," ","a"," ","q","u","e","s","t","i","o","n",":"," ">>

\* mutant of OrphanWarning: the text is not cut
OrphanWarningWhole(text) == OrphanPrefix \o text

\* f"Option without a question: {text[:40]}"
OrphanWarning(text) == OrphanPrefix \o Prefix(text, OrphanTextLen)

\* mutant of NewQuestion: the question text carries the number of the call,
\* as if a counter outside the function were consulted
NewQuestionCounted(d, text) ==
    [d EXCEPT !.questions =
                  Append(@, [text |-> IntToStr(call) \o text, options |-> <<>>])]

\* draft["questions"].append({"text": text, "options": []})
NewQuestion(d, text) ==
    [d EXCEPT !.questions = Append(@, [text |-> text, options |-> <<>>])]

\* mutant of NewOption: the option is inserted in front
NewOptionFront(d, cur, text, correct) ==
    [d EXCEPT !.questions[cur].options =
                  <<[text |-> text, isCorrect |-> correct]>> \o @]

\* current_q["options"].append({"text": text, "isCorrect": correct})
NewOption(d, cur, text, correct) ==
    [d EXCEPT !.questions[cur].options =
                  Append(@, [text |-> text, isCorrect |-> correct])]

\* draft["warnings"].append(w)
AddWarning(d, w) == [d EXCEPT !.warnings = Append(@, w)]

\* mutant of MergeOther: a wrapped line with a bold run marks the option it
\* is merged into as correct
MergeOtherRecomputesCorrect(d, cur, lk, text) ==
    IF lk = "OPTION" /\ Len(d.questions[cur].options) > 0
    THEN [d EXCEPT !.questions[cur].options[Len(d.questions[cur].options)] =
                       [text |-> @.text \o <<" ">> \o text,
                        isCorrect |-> @.isCorrect \/ is_correct_option(p)]]
    ELSE [d EXCEPT !.questions[cur].text = @ \o <<" ">> \o text]

\* mutant of MergeOther: last_kind is ignored, the question text always grows
MergeOtherQuestionOnly(d, cur, lk, text) ==
    [d EXCEPT !.questions[cur].text = @ \o <<" ">> \o text]

\* the += " " + text of the OTHER branch
MergeOther(d, cur, lk, text) ==
    IF lk = "OPTION" /\ Len(d.questions[cur].options) > 0
    THEN [d EXCEPT !.questions[cur].options[Len(d.questions[cur].options)].text =
                       @ \o <<" ">> \o text]
    ELSE [d EXCEPT !.questions[cur].text = @ \o <<" ">> \o text]

\* mutant of SkipEmpty: an empty paragraph ends the item it follows
SkipEmptyEndsItem ==
    /\ InLoop
    /\ Classified(p).kind = "EMPTY"
    /\ last_kind' = NoKind
    /\ idx' = idx + 1
    /\ trace' = Append(trace, "EMPTY")
    /\ UNCHANGED <<sessions, responses, request, reply, call, suspended, paragraphs, pc, draft, current_q, vi>>

\* kind == "EMPTY": continue
SkipEmpty ==
    /\ InLoop
    /\ Classified(p).kind = "EMPTY"
    /\ idx' = idx + 1
    /\ trace' = Append(trace, "EMPTY")
    /\ UNCHANGED <<sessions, responses, request, reply, call, suspended, paragraphs, pc, draft, current_q, last_kind, vi>>

\* mutant of StartQuestion: last_kind is not assigned
StartQuestionKeepsKind ==
    /\ InLoop
    /\ EffectiveKind = "QUESTION"
    /\ draft' = NewQuestion(draft, Classified(p).text)
    /\ current_q' = Len(draft'.questions)
    /\ idx' = idx + 1
    /\ trace' = Append(trace, "QUESTION")
    /\ UNCHANGED <<sessions, responses, request, reply, call, suspended, paragraphs, pc, last_kind, vi>>

\* kind == "QUESTION"
StartQuestion ==
    /\ InLoop
    /\ EffectiveKind = "QUESTION"
    /\ draft' = NewQuestion(draft, Classified(p).text)
    /\ current_q' = Len(draft'.questions)
    /\ last_kind' = "QUESTION"
    /\ idx' = idx + 1
    /\ trace' = Append(trace, "QUESTION")
    /\ UNCHANGED <<sessions, responses, request, reply, call, suspended, paragraphs, pc, vi>>

\* kind == "OPTION" and current_q is None: warn and continue
OrphanOption ==
    /\ InLoop
    /\ EffectiveKind = "OPTION"
    /\ current_q = None
    /\ draft' = AddWarning(draft, OrphanWarning(Classified(p).text))
    /\ idx' = idx + 1
    /\ trace' = Append(trace, "ORPHAN_OPTION")
    /\ UNCHANGED <<sessions, responses, request, reply, call, suspended, paragraphs, pc, current_q, last_kind, vi>>

\* mutant of AppendOption: the option goes to the first question of the draft
AppendOptionFirstQuestion ==
    /\ InLoop
    /\ EffectiveKind = "OPTION"
    /\ current_q # None
    /\ draft' = NewOption(draft, 1, Classified(p).text, is_correct_option(p))
    /\ last_kind' = "OPTION"
    /\ idx' = idx + 1
    /\ trace' = Append(trace, "OPTION")
    /\ UNCHANGED <<sessions, responses, request, reply, call, suspended, paragraphs, pc, current_q, vi>>

\* kind == "OPTION" with a current question
AppendOption ==
    /\ InLoop
    /\ EffectiveKind = "OPTION"
    /\ current_q # None
    /\ draft' = NewOption(draft, current_q, Classified(p).text,
                          is_correct_option(p))
    /\ last_kind' = "OPTION"
    /\ idx' = idx + 1
    /\ trace' = Append(trace, "OPTION")
    /\ UNCHANGED <<sessions, responses, request, reply, call, suspended, paragraphs, pc, current_q, vi>>

\* mutant of OrphanOther: a warning is appended, as for an orphan option
OrphanOtherWarns ==
    /\ InLoop
    /\ EffectiveKind = "OTHER"
    /\ current_q = None
    /\ draft' = AddWarning(draft, OrphanWarning(Classified(p).text))
    /\ idx' = idx + 1
    /\ trace' = Append(trace, "ORPHAN_OTHER")
    /\ UNCHANGED <<sessions, responses, request, reply, call, suspended, paragraphs, pc, current_q, last_kind, vi>>

\* OTHER and current_q is None: continue
OrphanOther ==
    /\ InLoop
    /\ EffectiveKind = "OTHER"
    /\ current_q = None
    /\ idx' = idx + 1
    /\ trace' = Append(trace, "ORPHAN_OTHER")
    /\ UNCHANGED <<sessions, responses, request, reply, call, suspended, paragraphs, pc, draft, current_q, last_kind, vi>>

\* mutant of Continuation: a wrapped line makes the question the last item
ContinuationResets ==
    /\ InLoop
    /\ EffectiveKind = "OTHER"
    /\ current_q # None
    /\ draft' = MergeOther(draft, current_q, last_kind, Classified(p).text)
    /\ last_kind' = "QUESTION"
    /\ idx' = idx + 1
    /\ trace' = Append(trace, "OTHER")
    /\ UNCHANGED <<sessions, responses, request, reply, call, suspended, paragraphs, pc, current_q, vi>>

\* OTHER with a current question: a wrapped line
Continuation ==
    /\ InLoop
    /\ EffectiveKind = "OTHER"
    /\ current_q # None
    /\ draft' = MergeOther(draft, current_q, last_kind, Classified(p).text)
    /\ idx' = idx + 1
    /\ trace' = Append(trace, "OTHER")
    /\ UNCHANGED <<sessions, responses, request, reply, call, suspended, paragraphs, pc, current_q, last_kind, vi>>

\* classify_paragraph(p) raises: the exception leaves parse_docx_mcq
RaiseValueError ==
    /\ InLoop
    /\ Classified(p).kind = "ValueError"
    /\ pc' = "error"
    /\ UNCHANGED <<sessions, responses, request, reply, call, suspended, paragraphs, idx, draft, current_q, last_kind, vi, trace>>

\* mutant of EndLoop: a document without questions is reported
EndLoopWarnEmpty ==
    /\ pc = "loop"
    /\ idx = Len(paragraphs)
    /\ pc' = "validate"
    /\ draft' = IF draft.questions = <<>>
                THEN AddWarning(draft, <<"N","o"," ","q","u","e","s","t","i","o","n","s",".">>)
                ELSE draft
    /\ UNCHANGED <<sessions, responses, request, reply, call, suspended, paragraphs, idx, current_q, last_kind, vi, trace>>

\* doc.paragraphs is exhausted
EndLoop ==
    /\ pc = "loop"
    /\ idx = Len(paragraphs)
    /\ pc' = "validate"
    /\ UNCHANGED <<sessions, responses, request, reply, call, suspended, paragraphs, idx, draft, current_q, last_kind, vi, trace>>

(* ------------------------------------------------------------------ *)
(* The validation loop                                                 *)
(* ------------------------------------------------------------------ *)

QuestionWord == <<"Q","u","e","s","t","i","o","n"," ">>

\* f"Question {i} has <2 options."
FewOptionsWarning(i) == QuestionWord \o IntToStr(i) \o <<" ","h","a","s"," ","<","2"," ","o","p","t","i","o","n","s",".">>

\* f"Question {i} does not have exactly 1 bold answer."
BoldAnswerWarning(i) == QuestionWord \o IntToStr(i) \o 
    <<" ","d","o","e","s"," ","n","o","t"," ","h","a","v","e"," ","e","x","a","c","t","l","y"," ","1"," ","b","o","l","d"," ","a","n","s","w","e","r",".">>

\* sum(o["isCorrect"] for o in q["options"])
CorrectCount(q) == Cardinality({j \in 1..Len(q.options) : q.options[j].isCorrect})

\* mutant of ValidationWarnings: two options count as too few
ValidationWarningsAtMostTwo(i, q) ==
    (IF Len(q.options) <= 2 THEN <<FewOptionsWarning(i)>> ELSE <<>>)
    \o (IF CorrectCount(q) # 1 THEN <<BoldAnswerWarning(i)>> ELSE <<>>)

\* mutant of ValidationWarnings: several correct options pass
ValidationWarningsNoneBold(i, q) ==
    (IF Len(q.options) < 2 THEN <<FewOptionsWarning(i)>> ELSE <<>>)
    \o (IF CorrectCount(q) = 0 THEN <<BoldAnswerWarning(i)>> ELSE <<>>)

\* mutant of ValidationWarnings: the two rules are applied in the other order
ValidationWarningsSwapped(i, q) ==
    (IF CorrectCount(q) # 1 THEN <<BoldAnswerWarning(i)>> ELSE <<>>)
    \o (IF Len(q.options) < 2 THEN <<FewOptionsWarning(i)>> ELSE <<>>)

\* the warnings one iteration appends for question q at 1-based index i
ValidationWarnings(i, q) ==
    (IF Len(q.options) < 2 THEN <<FewOptionsWarning(i)>> ELSE <<>>)
    \o (IF CorrectCount(q) # 1 THEN <<BoldAnswerWarning(i)>> ELSE <<>>)

\* mutant of ValidateQuestion: a question without exactly one correct option
\* is repaired, its first option becomes the only correct one
ValidateQuestionRepair ==
    /\ pc = "validate"
    /\ vi < Len(draft.questions)
    /\ LET q == draft.questions[vi + 1]
           fixed == [n \in 1..Len(q.options) |->
                        [q.options[n] EXCEPT !.isCorrect = (n = 1)]]
       IN  draft' = [draft EXCEPT
                        !.warnings = @ \o ValidationWarnings(vi + 1, q),
                        !.questions[vi + 1].options =
                            IF CorrectCount(q) # 1 THEN fixed ELSE @]
    /\ vi' = vi + 1
    /\ UNCHANGED <<sessions, responses, request, reply, call, suspended, paragraphs, idx, pc, current_q, last_kind, trace>>

\* one iteration of the loop over enumerate(draft["questions"], 1)
ValidateQuestion ==
    /\ pc = "validate"
    /\ vi < Len(draft.questions)
    /\ draft' = [draft EXCEPT !.warnings =
                     @ \o ValidationWarnings(vi + 1, draft.questions[vi + 1])]
    /\ vi' = vi + 1
    /\ UNCHANGED <<sessions, responses, request, reply, call, suspended, paragraphs, idx, pc, current_q, last_kind, trace>>

\* return draft
Return ==
    /\ pc = "validate"
    /\ vi = Len(draft.questions)
    /\ pc' = "done"
    /\ UNCHANGED <<sessions, responses, request, reply, call, suspended, paragraphs, idx, draft, current_q, last_kind, vi, trace>>

Next ==
    \/ SkipEmpty
    \/ StartQuestion
    \/ OrphanOption
    \/ AppendOption
    \/ OrphanOther
    \/ Continuation
    \/ RaiseValueError
    \/ EndLoop
    \/ ValidateQuestion
    \/ Return

Spec == Init /\ [][Next]_vars

SpecClassify == InitClassify /\ [][Next]_vars

(* ------------------------------------------------------------------ *)
(* Two calls of parse_docx_mcq with interleaved steps                  *)
(* ------------------------------------------------------------------ *)

\* bound on the length of the documents of the call that starts first
MaxPairParas == 2

PairSamples == {P_Blank, P_Ask, P_Four, P_More, P_Sup}

\* a question with an option and a wrapped line
AskFourMore == <<P_Ask, P_Four, P_More>>

PairDocs ==
    UNION {[1..n -> PairSamples] : n \in 0..MaxPairParas} \cup {AskFourMore}

\* document d without its paragraphs of empty trimmed text
WithoutEmpty(d) == SelectSeq(d, LAMBDA q : Strip(q.text) # <<>>)

\* document d with an empty paragraph put after its first k paragraphs
WithEmptyAt(d, k) == SubSeq(d, 1, k) \o <<P_Blank>> \o SubSeq(d, k + 1, Len(d))

\* the documents of the other call when the first call reads d: d itself,
\* d with empty paragraphs removed or inserted, and two documents of their own
SecondDocs(d) ==
    {d, WithoutEmpty(d), AskFourMore, <<P_Four, P_More>>}
    \cup {WithEmptyAt(d, k) : k \in 0..Len(d)}

\* the local variables of a call that has just entered parse_docx_mcq on d
NewFrame(c, d) ==
    [call |-> c, paragraphs |-> d, idx |-> 0, pc |-> "loop",
     draft |-> [title |-> "Imported Quiz", questions |-> <<>>, warnings |-> <<>>],
     current_q |-> None, last_kind |-> NoKind, vi |-> 0, trace |-> <<>>]

\* the local variables of the running call
Running ==
    [call |-> call, paragraphs |-> paragraphs, idx |-> idx, pc |-> pc,
     draft |-> draft, current_q |-> current_q, last_kind |-> last_kind,
     vi |-> vi, trace |-> trace]

InitPair ==
    /\ paragraphs \in PairDocs
    /\ idx = 0
    /\ pc = "loop"
    /\ draft = [title |-> "Imported Quiz", questions |-> <<>>, warnings |-> <<>>]
    /\ current_q = None
    /\ last_kind = NoKind
    /\ vi = 0
    /\ trace = <<>>
    /\ call = 1
    /\ \E d \in SecondDocs(paragraphs) : suspended = <<NewFrame(2, d)>>
    /\ NoPlay

\* mutant of Switch: last_kind is one variable of the module, which the
\* calls share
SwitchSharedLastKind ==
    /\ suspended # <<>>
    /\ Head(suspended).pc \notin {"done", "error"}
    /\ suspended' = <<Running>>
    /\ call' = Head(suspended).call
    /\ paragraphs' = Head(suspended).paragraphs
    /\ idx' = Head(suspended).idx
    /\ pc' = Head(suspended).pc
    /\ draft' = Head(suspended).draft
    /\ current_q' = Head(suspended).current_q
    /\ last_kind' = last_kind
    /\ vi' = Head(suspended).vi
    /\ trace' = Head(suspended).trace
    /\ UNCHANGED <<sessions, responses, request, reply>>

\* the scheduler lets the other call run: each call has its own locals
Switch ==
    /\ suspended # <<>>
    /\ Head(suspended).pc \notin {"done", "error"}
    /\ suspended' = <<Running>>
    /\ call' = Head(suspended).call
    /\ paragraphs' = Head(suspended).paragraphs
    /\ idx' = Head(suspended).idx
    /\ pc' = Head(suspended).pc
    /\ draft' = Head(suspended).draft
    /\ current_q' = Head(suspended).current_q
    /\ last_kind' = Head(suspended).last_kind
    /\ vi' = Head(suspended).vi
    /\ trace' = Head(suspended).trace
    /\ UNCHANGED <<sessions, responses, request, reply>>

NextPair ==
    \/ Next
    \/ Switch

SpecPair == InitPair /\ [][NextPair]_vars

(* ------------------------------------------------------------------ *)
(* parse_docx_mcq as a function of the document                        *)
(* ------------------------------------------------------------------ *)

\* the locals after lines 78-81
Entered ==
    [pc |-> "loop",
     draft |-> [title |-> "Imported Quiz", questions |-> <<>>, warnings |-> <<>>],
     current_q |-> None, last_kind |-> NoKind]

\* one iteration of the for loop over doc.paragraphs, on paragraph q
Iteration(f, q) ==
    LET c == Classified(q)
        kind == Reclassify(c.kind, c.text, q.text, f.current_q)
    IN  IF f.pc = "error" \/ c.kind = "EMPTY" THEN f
        ELSE IF c.kind = "ValueError" THEN [f EXCEPT !.pc = "error"]
        ELSE IF kind = "QUESTION"
             THEN [f EXCEPT !.draft = NewQuestion(f.draft, c.text),
                            !.current_q = Len(f.draft.questions) + 1,
                            !.last_kind = "QUESTION"]
        ELSE IF kind = "OPTION"
             THEN IF f.current_q = None
                  THEN [f EXCEPT !.draft = AddWarning(f.draft, OrphanWarning(c.text))]
                  ELSE [f EXCEPT !.draft = NewOption(f.draft, f.current_q, c.text,
                                                     is_correct_option(q)),
                                 !.last_kind = "OPTION"]
        ELSE IF f.current_q = None THEN f
        ELSE [f EXCEPT !.draft = MergeOther(f.draft, f.current_q, f.last_kind,
                                            c.text)]

RECURSIVE AfterLoop(_, _)
\* the locals after the first n iterations of the loop over d
AfterLoop(d, n) ==
    IF n = 0 THEN Entered ELSE Iteration(AfterLoop(d, n - 1), d[n])

RECURSIVE Validated(_, _)
\* draft d after the first n iterations of the validation loop
Validated(d, n) ==
    IF n = 0 THEN d
    ELSE [Validated(d, n - 1) EXCEPT
              !.warnings = @ \o ValidationWarnings(n, d.questions[n])]

\* what a call hands to its caller: the draft, or the exception
Outcome(state, d) ==
    IF state = "error" THEN <<"ValueError">> ELSE <<"Draft", d>>

\* parse_docx_mcq(d) run on its own
parse_docx_mcq(d) ==
    LET f == AfterLoop(d, Len(d))
    IN  Outcome(f.pc, Validated(f.draft, Len(f.draft.questions)))

(* ------------------------------------------------------------------ *)
(* Play sessions: start_play, submit_answer, complete_session          *)
(* ------------------------------------------------------------------ *)

\* bound on the number of rows of quiz_sessions
MaxSessions == 2

\* the attributes class QuizSession maps
QuizSessionColumns ==
    {"id", "quiz_id", "user_id", "started_at", "completed_at", "updated_at",
     "current_index", "is_paused"}

\* the keywords start_play passes to QuizSession(...)
NewSessionKeywords ==
    {"quiz_id", "user_id", "current_index", "is_paused", "active_started_at",
     "elapsed_seconds"}

\* the declarative constructor raises TypeError for a keyword that is not an
\* attribute of the class
ConstructorAccepts(keywords) == keywords \subseteq QuizSessionColumns

\* reading attribute a of a row that session.get or a select has loaded
\* raises AttributeError unless the class maps a
HasAttribute(a) == a \in QuizSessionColumns

\* the rows of table quizzes, and the quiz ids a request may carry
Quizzes == {"quizA", "quizB"}

QuizIds == Quizzes \cup {"quizX"}

\* the rows of table options, and the ids a request may carry
OptionRows == {"o1", "o2", "o3"}

OptionIds == OptionRows \cup {"oX"}

QuestionIds == {"q1", "q2"}

\* session.get(Option, id), for a row that exists
Option(o) ==
    CASE o = "o1" -> [question_id |-> "q1", is_correct |-> TRUE]
      [] o = "o2" -> [question_id |-> "q1", is_correct |-> FALSE]
      [] o = "o3" -> [question_id |-> "q2", is_correct |-> TRUE]

\* the session ids a request may carry: the rows and one id of no row
SessionIds == 1..(MaxSessions + 1)

\* the rows a store may hold for n sessions: row i was started at time i
\* and has i - 1 answers behind it
StoredSessions(n) ==
    {[i \in 1..n |->
         [quiz_id |-> f[i].quiz_id, started_at |-> i,
          completed_at |-> IF f[i].completed THEN n + 1 ELSE None,
          current_index |-> i - 1, is_paused |-> f[i].is_paused]] :
     f \in [1..n -> [quiz_id : Quizzes, completed : BOOLEAN,
                     is_paused : BOOLEAN]]}

\* datetime.utcnow(): later than every time in the store
Now ==
    LET times == {sessions[i].started_at : i \in 1..Len(sessions)}
                 \cup {sessions[i].completed_at : i \in 1..Len(sessions)}
    IN  1 + (CHOOSE t \in times \cup {0} : \A u \in times : u <= t)

InitPlay ==
    /\ paragraphs = <<>>
    /\ idx = 0
    /\ pc = "loop"
    /\ draft = [title |-> "Imported Quiz", questions |-> <<>>, warnings |-> <<>>]
    /\ current_q = None
    /\ last_kind = NoKind
    /\ vi = 0
    /\ trace = <<>>
    /\ call = 1
    /\ suspended = <<>>
    /\ \E n \in 0..MaxSessions : sessions \in StoredSessions(n)
    /\ responses = <<>>
    /\ request = NoRequest
    /\ reply = NoReply

Extraction ==
    <<paragraphs, idx, pc, draft, current_q, last_kind, vi, trace, call,
      suspended>>

Req(op, k, sid, o, q) ==
    [op |-> op, quiz_id |-> k, session_id |-> sid, option_id |-> o,
     question_id |-> q]

Reply(status, sid) == [status |-> status, session |-> sid]

\* the rows of quiz k with completed_at IS NULL
Uncompleted(k) ==
    {i \in 1..Len(sessions) :
        sessions[i].quiz_id = k /\ sessions[i].completed_at = None}

\* the rows .order_by(started_at.desc()) .first() may give
MostRecent(k) ==
    {i \in Uncompleted(k) :
        \A j \in Uncompleted(k) : sessions[j].started_at <= sessions[i].started_at}

\* start_play: session.get(Quiz, payload.quiz_id) finds nothing
StartPlayNotFound ==
    \E k \in QuizIds \ Quizzes :
        /\ request' = Req("start_play", k, None, "-", "-")
        /\ reply' = Reply(404, None)
        /\ UNCHANGED <<sessions, responses>>
        /\ UNCHANGED Extraction

\* start_play: an uncompleted session exists; the change of is_paused is
\* committed before the reply is built from the attributes of qs
StartPlayResume ==
    \E k \in Quizzes :
        /\ Uncompleted(k) # {}
        /\ \E i \in MostRecent(k) :
              /\ sessions' = [sessions EXCEPT ![i].is_paused = FALSE]
              /\ reply' = IF HasAttribute("elapsed_seconds")
                          THEN Reply(200, i)
                          ELSE Reply(500, None)
        /\ request' = Req("start_play", k, None, "-", "-")
        /\ UNCHANGED responses
        /\ UNCHANGED Extraction

\* start_play: no uncompleted session; QuizSession(...) is constructed,
\* added and committed
StartPlayNew ==
    \E k \in Quizzes :
        /\ Uncompleted(k) = {}
        /\ IF ConstructorAccepts(NewSessionKeywords)
           THEN /\ Len(sessions) < MaxSessions
                /\ sessions' = Append(sessions,
                                    [quiz_id |-> k, started_at |-> Now,
                                     completed_at |-> None, current_index |-> 0,
                                     is_paused |-> FALSE])
                /\ reply' = Reply(200, Len(sessions) + 1)
           ELSE /\ sessions' = sessions
                /\ reply' = Reply(500, None)
        /\ request' = Req("start_play", k, None, "-", "-")
        /\ UNCHANGED responses
        /\ UNCHANGED Extraction

\* submit_answer: session.get(QuizSession, session_id) finds nothing
SubmitAnswerNotFound ==
    \E sid \in SessionIds, o \in OptionIds, q \in QuestionIds :
        /\ sid \notin 1..Len(sessions)
        /\ request' = Req("submit_answer", "-", sid, o, q)
        /\ reply' = Reply(404, None)
        /\ UNCHANGED <<sessions, responses>>
        /\ UNCHANGED Extraction

\* submit_answer: not option or option.question_id != payload.question_id
SubmitAnswerInvalid ==
    \E sid \in SessionIds, o \in OptionIds, q \in QuestionIds :
        /\ sid \in 1..Len(sessions)
        /\ IF o \in OptionRows THEN Option(o).question_id # q ELSE TRUE
        /\ request' = Req("submit_answer", "-", sid, o, q)
        /\ reply' = Reply(400, None)
        /\ UNCHANGED <<sessions, responses>>
        /\ UNCHANGED Extraction

\* submit_answer: the option belongs to the question; qs.active_started_at
\* is read before the commit, and a request that ends in an exception
\* leaves the store as it was
SubmitAnswer ==
    \E sid \in SessionIds, o \in OptionRows, q \in QuestionIds :
        /\ sid \in 1..Len(sessions)
        /\ Option(o).question_id = q
        /\ IF HasAttribute("active_started_at")
           THEN /\ responses' = Append(responses,
                                     [session_id |-> sid, question_id |-> q,
                                      selected_option_id |-> o,
                                      is_correct |-> Option(o).is_correct])
                /\ sessions' = [sessions EXCEPT
                                   ![sid].current_index = @ + 1,
                                   ![sid].is_paused = FALSE]
                /\ reply' = Reply(200, sid)
           ELSE /\ UNCHANGED <<sessions, responses>>
                /\ reply' = Reply(500, None)
        /\ request' = Req("submit_answer", "-", sid, o, q)
        /\ UNCHANGED Extraction

\* complete_session: session.get(QuizSession, session_id) finds nothing
CompleteNotFound ==
    \E sid \in SessionIds :
        /\ sid \notin 1..Len(sessions)
        /\ request' = Req("complete_session", "-", sid, "-", "-")
        /\ reply' = Reply(404, None)
        /\ UNCHANGED <<sessions, responses>>
        /\ UNCHANGED Extraction

\* complete_session: qs.active_started_at is read before completed_at is
\* assigned
CompleteSession ==
    \E sid \in SessionIds :
        /\ sid \in 1..Len(sessions)
        /\ IF HasAttribute("active_started_at")
           THEN /\ sessions' = [sessions EXCEPT ![sid].completed_at = Now,
                                                ![sid].is_paused = FALSE]
                /\ reply' = Reply(200, sid)
           ELSE /\ sessions' = sessions
                /\ reply' = Reply(500, None)
        /\ request' = Req("complete_session", "-", sid, "-", "-")
        /\ UNCHANGED responses
        /\ UNCHANGED Extraction

NextPlay ==
    \/ StartPlayNotFound
    \/ StartPlayResume
    \/ StartPlayNew
    \/ SubmitAnswerNotFound
    \/ SubmitAnswerInvalid
    \/ SubmitAnswer
    \/ CompleteNotFound
    \/ CompleteSession

SpecPlay == InitPlay /\ [][NextPlay]_vars

TypeOK ==
    /\ idx \in 0..Len(paragraphs)
    /\ pc \in {"loop", "validate", "done", "error"}
    /\ current_q \in 0..Len(draft.questions)
    /\ last_kind \in {NoKind, "QUESTION", "OPTION"}
    /\ vi \in 0..Len(draft.questions)
    /\ Len(trace) = idx

(* ------------------------------------------------------------------ *)
(* What the document says about its own paragraphs                     *)
(* ------------------------------------------------------------------ *)

\* kind and text the classifier gives paragraph j
KindOf(j) == Classified(paragraphs[j]).kind

TextOf(j) == Classified(paragraphs[j]).text

\* the raw trimmed text of paragraph j
TrimmedOf(j) == Strip(paragraphs[j].text)

HasQuestionMark(s) == \E i \in 1..Len(s) : s[i] = "?"

\* a question was started before paragraph j: the first paragraph classified
\* QUESTION always starts one
QuestionSeenBefore(j) == \E k \in 1..(j - 1) : KindOf(k) = "QUESTION"

\* paragraph j is classified QUESTION and passes the re-classification guard
StartsQuestion(j) ==
    /\ KindOf(j) = "QUESTION"
    /\ \/ ~QuestionSeenBefore(j)
       \/ HasQuestionMark(TrimmedOf(j))
       \/ Q_RE_match(TrimmedOf(j)) > 0

\* paragraph j is classified QUESTION and is downgraded by the guard
Downgraded(j) == KindOf(j) = "QUESTION" /\ ~StartsQuestion(j)

\* the elements of a finite set of integers in ascending order
RECURSIVE Ascending(_)
Ascending(S) ==
    IF S = {} THEN <<>>
    ELSE LET m == CHOOSE x \in S : \A y \in S : x <= y
         IN  <<m>> \o Ascending(S \ {m})

\* number of options of all questions of the draft
TotalOptions ==
    LET RECURSIVE Sum(_)
        Sum(k) == IF k = 0 THEN 0 ELSE Len(draft.questions[k].options) + Sum(k - 1)
    IN  Sum(Len(draft.questions))

(* ------------------------------------------------------------------ *)
(* C1                                                                  *)
(* ------------------------------------------------------------------ *)

\* C1: a paragraph classified QUESTION starts a new question iff there is no
\* current question, or its trimmed text contains "?" or matches Q_RE;
\* otherwise it is appended to the current question as a new option, exactly
\* as an OPTION paragraph is, and the number of questions does not change.
C1_ReclassificationGuard ==
    [][ (InLoop /\ Classified(p).kind = "QUESTION") =>
          LET starts == \/ current_q = None
                        \/ HasQuestionMark(Strip(p.text))
                        \/ Q_RE_match(Strip(p.text)) > 0
          IN  IF starts
              THEN /\ draft' = [draft EXCEPT !.questions =
                                   Append(@, [text |-> Classified(p).text,
                                              options |-> <<>>])]
                   /\ current_q' = Len(draft.questions) + 1
                   /\ last_kind' = "QUESTION"
              ELSE /\ draft' = [draft EXCEPT !.questions[current_q].options =
                                   Append(@, [text |-> Classified(p).text,
                                              isCorrect |-> is_correct_option(p)])]
                   /\ Len(draft'.questions) = Len(draft.questions)
                   /\ current_q' = current_q
                   /\ last_kind' = "OPTION"
      ]_vars

\* a QUESTION paragraph was downgraded, and a numbered one without "?" was not
C1_Witness ==
    /\ \E j \in 1..idx : KindOf(j) = "QUESTION" /\ trace[j] = "OPTION"
    /\ \E j \in 2..idx : /\ trace[j] = "QUESTION"
                         /\ ~HasQuestionMark(TrimmedOf(j))
                         /\ Q_RE_match(TrimmedOf(j)) > 0

(* ------------------------------------------------------------------ *)
(* C2                                                                  *)
(* ------------------------------------------------------------------ *)

\* the consumed paragraphs that became options: classified OPTION, or
\* classified QUESTION and downgraded, with a question started before them
BecameOption(j) ==
    /\ QuestionSeenBefore(j)
    /\ KindOf(j) = "OPTION" \/ Downgraded(j)

\* C2 as stated: the options of the draft are as many as the paragraphs the
\* classifier classified OPTION that met a current question.
C2_Original ==
    pc = "done" =>
        TotalOptions = Cardinality({j \in 1..Len(paragraphs) :
                                       KindOf(j) = "OPTION" /\ QuestionSeenBefore(j)})

\* C2 (amended): after every step, the options of the draft are as many as
\* the consumed paragraphs whose kind after the re-classification guard is
\* OPTION (classified OPTION, or classified QUESTION and downgraded) and that
\* met a current question; a current question exists iff a paragraph
\* classified QUESTION was consumed.
C2_Ownership ==
    /\ TotalOptions = Cardinality({j \in 1..idx : BecameOption(j)})
    /\ current_q # None <=> QuestionSeenBefore(idx + 1)

\* a finished run with an orphan option, a downgraded question and an option
C2_Witness ==
    /\ pc = "done"
    /\ \E j \in 1..idx : KindOf(j) = "OPTION" /\ ~QuestionSeenBefore(j)
    /\ \E j \in 1..idx : Downgraded(j)
    /\ \E j \in 1..idx : KindOf(j) = "OPTION" /\ QuestionSeenBefore(j)

(* ------------------------------------------------------------------ *)
(* C3                                                                  *)
(* ------------------------------------------------------------------ *)

\* the consumed paragraphs that started a question, in document order
QuestionStarts == Ascending({j \in 1..idx : StartsQuestion(j)})

\* the consumed paragraphs that became options after paragraph s and before
\* paragraph e, in document order
OptionsBetween(s, e) == Ascending({j \in (s + 1)..(e - 1) : BecameOption(j)})

\* C3: the questions of the draft are in the order of the paragraphs that
\* started them; the options of each question are, in document order, the
\* paragraphs that became options after its starting paragraph and before the
\* next starting paragraph (so each option belongs to the nearest preceding
\* start); each text begins with the classified text of its paragraph and
\* each flag is the paragraph's.
C3_OrderPreservation ==
    LET qs == QuestionStarts
    IN  /\ Len(draft.questions) = Len(qs)
        /\ \A k \in 1..Len(qs) :
              LET q    == draft.questions[k]
                  next == IF k < Len(qs) THEN qs[k + 1] ELSE idx + 1
                  from == OptionsBetween(qs[k], next)
              IN  /\ StartsWith(q.text, TextOf(qs[k]))
                  /\ Len(q.options) = Len(from)
                  /\ \A n \in 1..Len(from) :
                        /\ StartsWith(q.options[n].text, TextOf(from[n]))
                        /\ q.options[n].isCorrect =
                               is_correct_option(paragraphs[from[n]])

\* two questions, each with an option of its own
C3_Witness ==
    /\ pc = "done"
    /\ Len(draft.questions) = 2
    /\ Len(draft.questions[1].options) >= 1
    /\ Len(draft.questions[2].options) >= 1
    /\ draft.questions[1].text # draft.questions[2].text
    /\ draft.questions[1].options[1].text # draft.questions[2].options[1].text

\* one question with two different options
C3_WitnessOptions ==
    /\ pc = "done"
    /\ \E k \in 1..Len(draft.questions) :
          /\ Len(draft.questions[k].options) >= 2
          /\ draft.questions[k].options[1] # draft.questions[k].options[2]

(* ------------------------------------------------------------------ *)
(* C4                                                                  *)
(* ------------------------------------------------------------------ *)

\* C4: an OPTION paragraph consumed while there is no current question
\* appends exactly one warning, "Option without a question: " followed by the
\* first 40 characters of the classified text, and changes nothing else: no
\* question, no option, current_q and last_kind as before.
C4_OrphanOption ==
    [][ (InLoop /\ Classified(p).kind = "OPTION" /\ current_q = None) =>
          /\ draft'.warnings =
                 Append(draft.warnings,
                        OrphanPrefix
                          \o SubSeq(Classified(p).text, 1,
                                    Min(40, Len(Classified(p).text))))
          /\ Len(draft'.warnings) = Len(draft.warnings) + 1
          /\ draft'.questions = draft.questions
          /\ draft'.title = draft.title
          /\ current_q' = current_q
          /\ last_kind' = last_kind
      ]_vars

\* an orphan option with a text longer than 40 characters was consumed, and
\* its warning holds 40 of them
C4_Witness ==
    /\ idx >= 1
    /\ trace[idx] = "ORPHAN_OPTION"
    /\ Len(TextOf(idx)) > 40
    /\ Len(draft.warnings[Len(draft.warnings)]) = Len(OrphanPrefix) + 40
    /\ draft.questions = <<>>

(* ------------------------------------------------------------------ *)
(* C5                                                                  *)
(* ------------------------------------------------------------------ *)

\* C5: an OTHER paragraph with text t consumed while there is a current
\* question q: if last_kind is OPTION, the text of the last option of q
\* becomes its previous text, one space and t; otherwise the text of q becomes
\* its previous text, one space and t.  Exactly one of the two texts changes
\* and nothing else of the draft does.
C5_ContinuationMerge ==
    [][ (InLoop /\ Classified(p).kind = "OTHER" /\ current_q # None) =>
          LET t    == Classified(p).text
              q    == draft.questions[current_q]
              last == Len(q.options)
          IN  IF last_kind = "OPTION"
              THEN /\ last >= 1
                   /\ draft'.questions[current_q].options[last].text =
                          q.options[last].text \o <<" ">> \o t
                   /\ draft'.questions[current_q].text = q.text
                   /\ draft' = [draft EXCEPT
                                   !.questions[current_q].options[last].text =
                                       draft'.questions[current_q].options[last].text]
              ELSE /\ draft'.questions[current_q].text = q.text \o <<" ">> \o t
                   /\ draft'.questions[current_q].options = q.options
                   /\ draft' = [draft EXCEPT
                                   !.questions[current_q].text =
                                       draft'.questions[current_q].text]
      ]_vars

\* one line was merged into a question text and one into an option text
C5_Witness ==
    /\ idx = 4
    /\ trace = <<"QUESTION", "OTHER", "OPTION", "OTHER">>
    /\ draft.questions[1].text = TextOf(1) \o <<" ">> \o TextOf(2)
    /\ draft.questions[1].options[1].text = TextOf(3) \o <<" ">> \o TextOf(4)

(* ------------------------------------------------------------------ *)
(* C6                                                                  *)
(* ------------------------------------------------------------------ *)

\* C6: an OTHER paragraph consumed while there is no current question is
\* discarded silently: no warning, no question, no option, the title still
\* "Imported Quiz", current_q and last_kind as before.
C6_OrphanOther ==
    [][ (InLoop /\ Classified(p).kind = "OTHER" /\ current_q = None) =>
          /\ draft'.warnings = draft.warnings
          /\ draft'.questions = draft.questions
          /\ draft'.title = "Imported Quiz"
          /\ current_q' = current_q
          /\ last_kind' = last_kind
          /\ idx' = idx + 1
      ]_vars

\* an orphan OTHER paragraph was consumed after an orphan option
C6_Witness ==
    /\ idx >= 2
    /\ trace[idx] = "ORPHAN_OTHER"
    /\ KindOf(idx) = "OTHER"
    /\ Len(draft.warnings) = 1
    /\ draft.questions = <<>>

(* ------------------------------------------------------------------ *)
(* C7, C8                                                              *)
(* ------------------------------------------------------------------ *)

\* number of positions of the sequence ws that hold w
Occurrences(ws, w) == Cardinality({a \in 1..Len(ws) : ws[a] = w})

\* number of options of q whose isCorrect is true
BoldOptions(q) == Cardinality({n \in 1..Len(q.options) : q.options[n].isCorrect})

\* C7: in the returned draft, "Question i has <2 options." occurs exactly once
\* if question i has fewer than 2 options and does not occur otherwise.
C7_FewOptionsRule ==
    pc = "done" =>
        \A i \in 1..Len(draft.questions) :
            Occurrences(draft.warnings, FewOptionsWarning(i)) =
                IF Len(draft.questions[i].options) < 2 THEN 1 ELSE 0

\* a returned draft with a question of two options and questions of one and
\* of no option
C7_Witness ==
    /\ pc = "done"
    /\ \E i \in 1..Len(draft.questions) : Len(draft.questions[i].options) = 2
    /\ \E i \in 1..Len(draft.questions) : Len(draft.questions[i].options) < 2

\* C8: in the returned draft, "Question i does not have exactly 1 bold
\* answer." occurs exactly once if the number of options of question i with
\* isCorrect true is 0 or more than 1, and does not occur if it is 1.
C8_BoldAnswerRule ==
    pc = "done" =>
        \A i \in 1..Len(draft.questions) :
            Occurrences(draft.warnings, BoldAnswerWarning(i)) =
                IF BoldOptions(draft.questions[i]) = 0
                   \/ BoldOptions(draft.questions[i]) > 1
                THEN 1 ELSE 0

\* a returned draft with a question of two correct options and one of none
C8_Witness ==
    /\ pc = "done"
    /\ \E i \in 1..Len(draft.questions) : BoldOptions(draft.questions[i]) > 1
    /\ \E i \in 1..Len(draft.questions) : BoldOptions(draft.questions[i]) = 0

\* a returned draft with a question of exactly one correct option among two
C8_WitnessOne ==
    /\ pc = "done"
    /\ \E i \in 1..Len(draft.questions) :
          /\ BoldOptions(draft.questions[i]) = 1
          /\ Len(draft.questions[i].options) = 2
    /\ draft.warnings = <<>>

(* ------------------------------------------------------------------ *)
(* C9                                                                  *)
(* ------------------------------------------------------------------ *)

IsOrphanWarning(w) == StartsWith(w, OrphanPrefix)

\* the question index a validator warning names, 0 for any other warning
WarnedQuestion(w) ==
    IF \E i \in 1..Len(draft.questions) :
           w \in {FewOptionsWarning(i), BoldAnswerWarning(i)}
    THEN CHOOSE i \in 1..Len(draft.questions) :
           w \in {FewOptionsWarning(i), BoldAnswerWarning(i)}
    ELSE 0

\* the validator rule of a warning: 1 for "<2 options", 2 for the bold answer
WarnedRule(w) == IF w = FewOptionsWarning(WarnedQuestion(w)) THEN 1 ELSE 2

\* the warnings of the orphan options of the document, in document order
OrphanWarningsOf(js) ==
    [a \in 1..Len(js) |-> OrphanPrefix \o SubSeq(TextOf(js[a]), 1,
                                                 Min(40, Len(TextOf(js[a]))))]

\* C9: in the returned draft every warning is an orphan warning or a
\* validator warning; the orphan warnings come first, in document order; the
\* validator warnings follow in ascending question index, and for one
\* question "<2 options" comes before "exactly 1 bold answer".
C9_WarningOrder ==
    pc = "done" =>
        LET ws      == draft.warnings
            orphans == Ascending({j \in 1..Len(paragraphs) :
                                     KindOf(j) = "OPTION" /\ ~QuestionSeenBefore(j)})
        IN  /\ \A a \in 1..Len(ws) :
                  IsOrphanWarning(ws[a]) \/ WarnedQuestion(ws[a]) > 0
            /\ \A a \in 1..Len(ws) : \A b \in (a + 1)..Len(ws) :
                  /\ IsOrphanWarning(ws[b]) => IsOrphanWarning(ws[a])
                  /\ (WarnedQuestion(ws[a]) > 0 /\ WarnedQuestion(ws[b]) > 0) =>
                        \/ WarnedQuestion(ws[a]) < WarnedQuestion(ws[b])
                        \/ /\ WarnedQuestion(ws[a]) = WarnedQuestion(ws[b])
                           /\ WarnedRule(ws[a]) < WarnedRule(ws[b])
            /\ Len(ws) >= Len(orphans)
            /\ SubSeq(ws, 1, Len(orphans)) = OrphanWarningsOf(orphans)

\* two different orphan warnings, then both warnings of questions 1 and 2
C9_Witness ==
    /\ pc = "done"
    /\ Len(draft.questions) = 2
    /\ Len(draft.warnings) = 6
    /\ IsOrphanWarning(draft.warnings[1])
    /\ IsOrphanWarning(draft.warnings[2])
    /\ draft.warnings[1] # draft.warnings[2]

(* ------------------------------------------------------------------ *)
(* C10                                                                 *)
(* ------------------------------------------------------------------ *)

\* C10: from the end of the loop over the paragraphs on, a step changes
\* nothing of the draft but its warnings, and only by appending: the title,
\* the questions, their texts, their options and every isCorrect flag stay.
C10_ValidationAppendOnly ==
    [][ pc # "loop" =>
          /\ draft'.questions = draft.questions
          /\ draft'.title = draft.title
          /\ Len(draft'.warnings) >= Len(draft.warnings)
          /\ SubSeq(draft'.warnings, 1, Len(draft.warnings)) = draft.warnings
          /\ current_q' = current_q
          /\ last_kind' = last_kind
      ]_vars

\* validation has run over a question with several correct options and one
\* with options but no correct one, and has warned about both
C10_Witness ==
    /\ pc = "done"
    /\ Len(draft.questions) = 1
    /\ Len(draft.questions[1].options) = 3
    /\ BoldOptions(draft.questions[1]) \in {0, 2, 3}
    /\ draft.warnings = <<BoldAnswerWarning(1)>>

(* ------------------------------------------------------------------ *)
(* C11                                                                 *)
(* ------------------------------------------------------------------ *)

\* C11: a paragraph with non-empty trimmed text t and resolved level 0 is
\* classified (QUESTION, t), one with resolved level 1 is classified
\* (OPTION, t), whatever t looks like: no prefix is stripped.  The loop acts
\* on it: the first paragraph of a document starts the question t, or is
\* warned about as the orphan option t.
C11_StructuralTier ==
    /\ \A j \in 1..Len(paragraphs) :
          LET q == paragraphs[j]
              t == Strip(q.text)
          IN  t # <<>> =>
                /\ get_list_level(q) = Level(0) =>
                      Classified(q) = [kind |-> "QUESTION", text |-> t]
                /\ get_list_level(q) = Level(1) =>
                      Classified(q) = [kind |-> "OPTION", text |-> t]
    /\ (idx >= 1 /\ Strip(paragraphs[1].text) # <<>>) =>
          LET t == Strip(paragraphs[1].text)
          IN  /\ get_list_level(paragraphs[1]) = Level(0) =>
                    /\ Len(draft.questions) >= 1
                    /\ StartsWith(draft.questions[1].text, t)
              /\ get_list_level(paragraphs[1]) = Level(1) =>
                    /\ draft.questions = <<>>
                    /\ draft.warnings[1] =
                           OrphanPrefix \o SubSeq(t, 1, Min(40, Len(t)))

\* a level-1 paragraph "1. x" was consumed as the option "1. x"
C11_Witness ==
    /\ idx = 2
    /\ get_list_level(paragraphs[2]) = Level(1)
    /\ Strip(paragraphs[2].text) = <<"1","."," ","x">>
    /\ trace[2] = "OPTION"
    /\ draft.questions[1].options[1].text = <<"1","."," ","x">>

(* ------------------------------------------------------------------ *)
(* C12                                                                 *)
(* ------------------------------------------------------------------ *)

AllSpaces(u) == \A i \in 1..Len(u) : IsSpace(u[i])

AllDecimal(u) == \A i \in 1..Len(u) : u[i] \in {"0","1","2","3","4","5","6","7","8","9"}

\* u reads "question N" or "q N" (any case, white space optional), "N." or
\* "N)"
IsQuestionToken(u) ==
    \/ \E a \in 1..Len(u) : \E b \in a..(Len(u) - 1) :
          /\ Lower(SubSeq(u, 1, a)) \in {<<"q","u","e","s","t","i","o","n">>, <<"q">>}
          /\ AllSpaces(SubSeq(u, a + 1, b))
          /\ AllDecimal(SubSeq(u, b + 1, Len(u)))
    \/ /\ Len(u) >= 2
       /\ u[Len(u)] \in {".", ")"}
       /\ AllDecimal(SubSeq(u, 1, Len(u) - 1))

\* the lengths of the question tokens t begins with, white space following
QuestionTokens(t) ==
    {c \in 1..(Len(t) - 1) : IsSpace(t[c + 1]) /\ IsQuestionToken(SubSeq(t, 1, c))}

\* t begins with a letter A-H (any case), "." or ")", and white space
HasLetterToken(t) ==
    /\ Len(t) >= 3
    /\ t[1] \in {"a","b","c","d","e","f","g","h","A","B","C","D","E","F","G","H"}
    /\ t[2] \in {".", ")"}
    /\ IsSpace(t[3])

\* what is left of t after its first c characters, trimmed
Remainder(t, c) == Strip(SubSeq(t, c + 1, Len(t)))

\* C12: a paragraph with non-empty trimmed text t whose resolved level is
\* neither 0 nor 1: if t begins with a question token followed by white
\* space, it is classified QUESTION with the rest of t; otherwise, if t begins
\* with a letter token followed by white space, OPTION with the rest of t;
\* otherwise (OTHER, t).
C12_LexicalFallback ==
    \A j \in 1..Len(paragraphs) :
        LET q == paragraphs[j]
            t == Strip(q.text)
        IN  (/\ t # <<>>
             /\ get_list_level(q) # Level(0)
             /\ get_list_level(q) # Level(1)
             /\ get_list_level(q) # ValueError) =>
               IF QuestionTokens(t) # {}
               THEN \A c \in QuestionTokens(t) :
                       Classified(q) = [kind |-> "QUESTION", text |-> Remainder(t, c)]
               ELSE IF HasLetterToken(t)
               THEN Classified(q) = [kind |-> "OPTION", text |-> Remainder(t, 2)]
               ELSE Classified(q) = [kind |-> "OTHER", text |-> t]

\* "Question 3 z" at level 2 was consumed and started the question "z"
C12_Witness ==
    /\ idx = 1
    /\ paragraphs[1].ilvl = Level(2)
    /\ Strip(paragraphs[1].text) = <<"Q","u","e","s","t","i","o","n"," ","3"," ","z">>
    /\ trace[1] = "QUESTION"
    /\ draft.questions[1].text = <<"z">>

\* "h) r" without list metadata was consumed as the option "r"
C12_WitnessOption ==
    /\ idx = 2
    /\ get_list_level(paragraphs[2]) = NoLevel
    /\ Strip(paragraphs[2].text) = <<"h",")"," ","r">>
    /\ trace[2] = "OPTION"
    /\ draft.questions[1].options[1].text = <<"r">>

(* ------------------------------------------------------------------ *)
(* C13                                                                 *)
(* ------------------------------------------------------------------ *)

\* the last white-space separated word of u
LastWord(u) ==
    LET e == CHOOSE e \in 0..Len(u) :
                 /\ \A i \in (e + 1)..Len(u) : IsSpace(u[i])
                 /\ e > 0 => ~IsSpace(u[e])
        b == CHOOSE b \in 0..e :
                 /\ \A i \in (b + 1)..e : ~IsSpace(u[i])
                 /\ b > 0 => IsSpace(u[b])
    IN  SubSeq(u, b + 1, e)

\* the level C13 states for paragraph q, a trailing numeral being a last
\* word of decimal digits
StatedLevel(q) ==
    IF q.ilvl # NoLevel THEN q.ilvl
    ELSE IF StartsWith(Lower(q.style), <<"l","i","s","t"," ","n","u","m","b","e","r">>)
         THEN IF LastWord(q.style) # <<>> /\ AllDecimal(LastWord(q.style))
              THEN Level(ParseInt(LastWord(q.style)) - 1)
              ELSE Level(0)
         ELSE NoLevel

\* the last word of the style name of q holds a digit that is not decimal
OddNumeral(q) ==
    \E i \in 1..Len(LastWord(q.style)) : LastWord(q.style)[i] = SuperscriptTwo

\* the paragraphs classify_paragraph has resolved the level of: the consumed
\* ones and the one that raised, but for those with empty trimmed text
Resolved ==
    {j \in 1..(idx + (IF pc = "error" THEN 1 ELSE 0)) :
        Strip(paragraphs[j].text) # <<>>}

\* C13: get_list_level returns the numbering index if the paragraph carries
\* one, whatever the style; otherwise, for a style name that begins with
\* "list number" in any case, 0 without a trailing numeral and N - 1 with the
\* trailing numeral N; otherwise no level.
C13_ListLevel ==
    \A j \in Resolved :
        get_list_level(paragraphs[j]) = StatedLevel(paragraphs[j])

\* C13 for the paragraphs whose style name does not end in a word that
\* holds a non-decimal digit, or that carry a numbering index
C13_ListLevelDecimal ==
    \A j \in Resolved :
        (paragraphs[j].ilvl # NoLevel \/ ~OddNumeral(paragraphs[j])) =>
            get_list_level(paragraphs[j]) = StatedLevel(paragraphs[j])

\* a paragraph of style "list number 3" without numbering index was
\* consumed at level 2: OTHER
C13_Witness ==
    /\ idx = 2
    /\ paragraphs[2].ilvl = NoLevel
    /\ paragraphs[2].style = <<"l","i","s","t"," ","n","u","m","b","e","r"," ","3">>
    /\ get_list_level(paragraphs[2]) = Level(2)
    /\ trace[2] = "OTHER"

(* ------------------------------------------------------------------ *)
(* C14                                                                 *)
(* ------------------------------------------------------------------ *)

\* some run of q is bold and holds a character that is not white space
HasVisibleBoldRun(q) ==
    \E i \in 1..Len(q.runs) :
        /\ q.runs[i].bold
        /\ \E n \in 1..Len(q.runs[i].text) : ~IsSpace(q.runs[i].text[n])

\* C14: is_correct_option is true iff some run is bold and has
\* non-white-space text, and the option a paragraph creates carries that
\* value as isCorrect.
C14_CorrectnessDetector ==
    /\ \A j \in 1..Len(paragraphs) :
          is_correct_option(paragraphs[j]) <=> HasVisibleBoldRun(paragraphs[j])
    /\ (idx = 2 /\ trace[2] = "OPTION") =>
          /\ Len(draft.questions[1].options) = 1
          /\ draft.questions[1].options[1].isCorrect = HasVisibleBoldRun(paragraphs[2])

\* a paragraph whose only bold run is white space became an option that is
\* not correct
C14_Witness ==
    /\ idx = 2
    /\ trace[2] = "OPTION"
    /\ \E i \in 1..Len(paragraphs[2].runs) : paragraphs[2].runs[i].bold
    /\ ~draft.questions[1].options[1].isCorrect

\* a paragraph with a bold run after a plain one became a correct option
C14_WitnessCorrect ==
    /\ idx = 2
    /\ trace[2] = "OPTION"
    /\ Len(paragraphs[2].runs) = 2
    /\ ~paragraphs[2].runs[1].bold
    /\ draft.questions[1].options[1].isCorrect

(* ------------------------------------------------------------------ *)
(* C16, C17: the outcome of a call                                     *)
(* ------------------------------------------------------------------ *)

\* the loop has consumed the paragraphs one by one, in order, and the
\* validation starts only after the last one
OncePerParagraph ==
    /\ Len(trace) = idx
    /\ pc \in {"validate", "done"} => idx = Len(paragraphs)

\* C16: extraction consumes each paragraph exactly once in document order,
\* then validates and ends with a Draft; no paragraph sequence ends with an
\* error instead of a Draft.
C16_FailSoft ==
    /\ OncePerParagraph
    /\ pc # "error"

\* the same for the documents in which no paragraph with text has a style
\* name ending in a numeral that is not decimal
C16_FailSoftDecimal ==
    (\A j \in 1..Len(paragraphs) :
         Strip(paragraphs[j].text) = <<>> \/ ~OddNumeral(paragraphs[j]))
    => /\ OncePerParagraph
       /\ pc # "error"

\* C17: the extraction of zero paragraphs is not an error and returns the
\* Draft with title "Imported Quiz", no questions and no warnings.
C17_EmptyInput ==
    paragraphs = <<>> =>
        /\ pc # "error"
        /\ pc = "done" =>
              draft = [title |-> "Imported Quiz", questions |-> <<>>,
                       warnings |-> <<>>]

\* a call on zero paragraphs has returned
C17_Witness ==
    /\ paragraphs = <<>>
    /\ pc = "done"

(* ------------------------------------------------------------------ *)
(* C20: runs of OTHER paragraphs                                       *)
(* ------------------------------------------------------------------ *)

EndsWith(s, suf) ==
    Len(s) >= Len(suf) /\ SubSeq(s, Len(s) - Len(suf) + 1, Len(s)) = suf

\* where the run of wrapped lines that ends at the last consumed paragraph
\* starts (idx + 1 if that paragraph is not a wrapped line)
OtherRunStart ==
    CHOOSE s \in 1..(idx + 1) :
        /\ \A j \in s..idx : trace[j] = "OTHER"
        /\ s > 1 => trace[s - 1] # "OTHER"

\* the item the document puts before the run: the last question or option
\* started before paragraph s
ItemBefore(s) ==
    LET items == {k \in 1..(s - 1) : trace[k] \in {"QUESTION", "OPTION"}}
    IN  trace[CHOOSE k \in items : \A m \in items : m <= k]

RECURSIVE JoinedTexts(_, _)
\* " " + text of paragraph s, ..., " " + text of paragraph e
JoinedTexts(s, e) ==
    IF s > e THEN <<>>
    ELSE JoinedTexts(s, e - 1) \o <<" ">> \o TextOf(e)

\* the texts of the run that ends at the last consumed paragraph are the
\* end of the text of the item before the run, in document order
RunOnOneTarget ==
    LET s == OtherRunStart
        q == draft.questions[Len(draft.questions)]
    IN  s <= idx =>
            IF ItemBefore(s) = "OPTION"
            THEN EndsWith(q.options[Len(q.options)].text, JoinedTexts(s, idx))
            ELSE EndsWith(q.text, JoinedTexts(s, idx))

\* C20: an OTHER paragraph leaves last_kind and current_q as they are, and
\* every paragraph of a run of consecutive OTHER paragraphs is appended to
\* the item the first one was appended to, in document order.
C20_OtherFrame ==
    [][/\ (InLoop /\ KindOf(idx + 1) = "OTHER" /\ idx' = idx + 1) =>
             /\ last_kind' = last_kind
             /\ current_q' = current_q
       /\ RunOnOneTarget']_vars

\* two wrapped lines in a row after an option
C20_Witness ==
    /\ idx >= 4
    /\ trace[idx - 2] = "OPTION"
    /\ trace[idx - 1] = "OTHER"
    /\ trace[idx] = "OTHER"
    /\ Len(draft.questions[current_q].text) < Len(draft.questions[current_q].options[1].text)

\* two wrapped lines in a row after a question
C20_WitnessQuestion ==
    /\ idx >= 3
    /\ trace[idx - 2] = "QUESTION"
    /\ trace[idx - 1] = "OTHER"
    /\ trace[idx] = "OTHER"

(* ------------------------------------------------------------------ *)
(* C15, C18, C19: two calls                                            *)
(* ------------------------------------------------------------------ *)

Finished(f) == f.pc \in {"done", "error"}

\* the call that is not running
Other == Head(suspended)

\* both calls have handed their result to their callers
BothReturned ==
    /\ suspended # <<>>
    /\ Finished(Running)
    /\ Finished(Other)

OutcomeOf(f) == Outcome(f.pc, f.draft)

\* a call that ran with no other call around returns what the function of
\* the document says
AloneAsFunction ==
    (suspended = <<>> /\ Finished(Running)) =>
        OutcomeOf(Running) = parse_docx_mcq(paragraphs)

\* the running call consumes a paragraph whose trimmed text is empty
EmptyStep ==
    /\ InLoop
    /\ Strip(p.text) = <<>>
    /\ call' = call
    /\ idx' = idx + 1

\* two documents that differ only in paragraphs of empty trimmed text have
\* given the same result
SameWithoutEmpty ==
    (BothReturned /\ WithoutEmpty(paragraphs) = WithoutEmpty(Other.paragraphs))
    => OutcomeOf(Running) = OutcomeOf(Other)

\* C15: a paragraph whose trimmed text is empty changes neither the draft
\* nor current_q nor last_kind, and two paragraph sequences that differ only
\* by such paragraphs, at any positions, yield the same Draft.
C15_EmptyTransparent ==
    [][/\ EmptyStep => /\ draft' = draft
                       /\ current_q' = current_q
                       /\ last_kind' = last_kind
       /\ SameWithoutEmpty']_vars

\* the two calls read documents of different lengths that are equal without
\* their empty paragraphs, and returned a question with an option
C15_Witness ==
    /\ BothReturned
    /\ pc = "done"
    /\ Len(paragraphs) # Len(Other.paragraphs)
    /\ WithoutEmpty(paragraphs) = WithoutEmpty(Other.paragraphs)
    /\ Len(draft.questions) = 1
    /\ Len(draft.questions[1].options) = 1

\* C18: two extractions of the same paragraph sequence return equal Drafts:
\* same title, questions, option texts, isCorrect flags and warnings.
C18_Determinism ==
    (BothReturned /\ paragraphs = Other.paragraphs)
    => OutcomeOf(Running) = OutcomeOf(Other)

\* two calls on the same document returned a draft with a question, an
\* option and a warning
C18_Witness ==
    /\ BothReturned
    /\ pc = "done"
    /\ paragraphs = Other.paragraphs
    /\ Len(draft.questions) = 1
    /\ Len(draft.questions[1].options) = 1
    /\ draft.warnings # <<>>

\* a step of one call leaves the locals of the other call alone, and the
\* scheduler only exchanges the two frames
IsolatedStep ==
    IF call' = call
    THEN suspended' = suspended
    ELSE /\ suspended' = <<Running>>
         /\ Running' = Other

\* both calls returned what they return when run alone
AsAlone ==
    BothReturned =>
        /\ OutcomeOf(Running) = parse_docx_mcq(paragraphs)
        /\ OutcomeOf(Other) = parse_docx_mcq(Other.paragraphs)

\* C19: when the steps of two extractions are interleaved in any order, each
\* returns the Draft it returns when run alone, and no step of one call
\* changes current_q, last_kind or draft of the other.
C19_Isolation ==
    [][IsolatedStep /\ AsAlone']_vars

\* both calls are in the middle of their loops, on different documents, one
\* after an option and the other after a question
C19_Witness ==
    /\ suspended # <<>>
    /\ InLoop
    /\ Other.pc = "loop"
    /\ Other.idx < Len(Other.paragraphs)
    /\ paragraphs # Other.paragraphs
    /\ last_kind = "OPTION"
    /\ Other.last_kind = "QUESTION"

\* both calls returned drafts, of different documents, after the state of
\* C19_Witness
C19_WitnessReturned ==
    /\ BothReturned
    /\ pc = "done"
    /\ Other.pc = "done"
    /\ paragraphs # Other.paragraphs
    /\ Len(draft.questions) = 1
    /\ Len(Other.draft.questions) = 1
    /\ draft.questions[1].text # Other.draft.questions[1].text

(* ------------------------------------------------------------------ *)
(* C21, C22, C23: what a step may change in the draft                  *)
(* ------------------------------------------------------------------ *)

\* C21: a new question is created with the classified text and no options,
\* and a question that is not the last one of the draft never changes again:
\* neither its text nor its options, their texts or their isCorrect flags.
C21_OnlyCurrentQuestion ==
    [][/\ Len(draft'.questions) >= Len(draft.questions)
       /\ \A i \in 1..Len(draft.questions) :
              i < Len(draft'.questions) =>
                  draft'.questions[i] = draft.questions[i]
       /\ Len(draft'.questions) > Len(draft.questions) =>
              /\ InLoop
              /\ Len(draft'.questions) = Len(draft.questions) + 1
              /\ draft'.questions[Len(draft'.questions)] =
                     [text |-> TextOf(idx + 1), options |-> <<>>]]_vars

\* the second question got an option after the first one had got its own
C21_Witness ==
    /\ Len(draft.questions) = 2
    /\ Len(draft.questions[1].options) = 1
    /\ Len(draft.questions[2].options) = 1
    /\ idx = 4
    /\ trace[3] = "QUESTION"
    /\ trace[4] = "OPTION"

\* C22: last_kind is unset iff current_q is unset, current_q (when set) is
\* the last question of the draft, and last_kind = OPTION implies that the
\* current question has an option, so that the test of current_q["options"]
\* in the OTHER branch never decides.
C22_AssemblerState ==
    /\ last_kind = NoKind <=> current_q = None
    /\ current_q # None => current_q = Len(draft.questions)
    /\ last_kind = "OPTION" => Len(draft.questions[current_q].options) >= 1
    /\ (InLoop /\ current_q # None) =>
          LET text == Classified(p).text
          IN  MergeOther(draft, current_q, last_kind, text) =
                  IF last_kind = "OPTION"
                  THEN [draft EXCEPT
                           !.questions[current_q].options[
                               Len(draft.questions[current_q].options)].text =
                                   @ \o <<" ">> \o text]
                  ELSE [draft EXCEPT
                           !.questions[current_q].text = @ \o <<" ">> \o text]

\* a second question has just been started after an option of the first
C22_Witness ==
    /\ idx >= 3
    /\ trace[idx - 1] = "OPTION"
    /\ trace[idx] = "QUESTION"
    /\ InLoop

\* the second question has an option and a wrapped line is next
C22_WitnessOption ==
    /\ current_q = 2
    /\ last_kind = "OPTION"
    /\ InLoop
    /\ KindOf(idx + 1) = "OTHER"

\* the isCorrect flags of the options of draft d, question by question
Flags(d) ==
    [i \in 1..Len(d.questions) |->
        [n \in 1..Len(d.questions[i].options) |->
            d.questions[i].options[n].isCorrect]]

\* C23: the isCorrect flag of an option never changes after the option is
\* created, and an OTHER paragraph merged into an option changes the text of
\* that option and nothing else, bold runs in the paragraph or not.
C23_FlagFixed ==
    [][/\ \A i \in 1..Len(draft.questions) :
              \A n \in 1..Len(draft.questions[i].options) :
                  /\ Len(draft'.questions[i].options) >= n
                  /\ draft'.questions[i].options[n].isCorrect =
                         draft.questions[i].options[n].isCorrect
       /\ (InLoop /\ KindOf(idx + 1) = "OTHER" /\ idx' = idx + 1
             /\ last_kind = "OPTION") =>
              LET n == Len(draft.questions[current_q].options)
              IN  /\ Flags(draft') = Flags(draft)
                  /\ draft' = [draft EXCEPT
                                  !.questions[current_q].options[n].text =
                                      draft'.questions[current_q].options[n].text]
                  /\ draft'.questions[current_q].options[n].text =
                         draft.questions[current_q].options[n].text
                             \o <<" ">> \o TextOf(idx + 1)]_vars

\* a wrapped line with a bold run was merged into an option that is not
\* correct
C23_Witness ==
    /\ idx >= 3
    /\ trace[idx] = "OTHER"
    /\ trace[idx - 1] = "OPTION"
    /\ is_correct_option(paragraphs[idx])
    /\ ~draft.questions[current_q].options[
            Len(draft.questions[current_q].options)].isCorrect

(* ------------------------------------------------------------------ *)
(* C24, C25: play sessions                                             *)
(* ------------------------------------------------------------------ *)

\* every quiz has at most one session with completed_at unset
AtMostOneUncompleted ==
    \A i, j \in 1..Len(sessions) :
        (/\ sessions[i].quiz_id = sessions[j].quiz_id
         /\ sessions[i].completed_at = None
         /\ sessions[j].completed_at = None) => i = j

\* the step handles a start_play request for a quiz of the store
StartPlayStep ==
    /\ request'.op = "start_play"
    /\ request'.quiz_id \in Quizzes

\* C24: start_play for a quiz with an uncompleted session creates no session
\* and returns the most recently started uncompleted one, with is_paused
\* false; a session is created only when the quiz has no uncompleted
\* session, with current_index 0 and not paused; hence a store with at most
\* one uncompleted session per quiz stays so.
C24_Resume ==
    [][/\ (StartPlayStep /\ Uncompleted(request'.quiz_id) # {}) =>
              /\ Len(sessions') = Len(sessions)
              /\ reply'.status = 200
              /\ reply'.session \in MostRecent(request'.quiz_id)
              /\ ~sessions'[reply'.session].is_paused
       /\ Len(sessions') # Len(sessions) =>
              /\ StartPlayStep
              /\ Uncompleted(request'.quiz_id) = {}
              /\ sessions' = Append(sessions, sessions'[Len(sessions')])
              /\ sessions'[Len(sessions')].current_index = 0
              /\ ~sessions'[Len(sessions')].is_paused
       /\ AtMostOneUncompleted => AtMostOneUncompleted']_vars

\* what start_play does to the store: on resume no row is added and a most
\* recently started uncompleted row is not paused afterwards; rows are only
\* added for a quiz without an uncompleted one
C24_StoreEffect ==
    [][/\ (StartPlayStep /\ Uncompleted(request'.quiz_id) # {}) =>
              /\ Len(sessions') = Len(sessions)
              /\ \E i \in MostRecent(request'.quiz_id) : ~sessions'[i].is_paused
       /\ Len(sessions') # Len(sessions) =>
              /\ StartPlayStep
              /\ Uncompleted(request'.quiz_id) = {}
       /\ AtMostOneUncompleted => AtMostOneUncompleted']_vars

\* the option of the request exists and belongs to the question of the request
ValidOption(o, q) ==
    IF o \in OptionRows THEN Option(o).question_id = q ELSE FALSE

\* C25: submit_answer for an unknown session replies 404, for a missing
\* option or an option of another question 400, both without recording a
\* Response or changing a session; an accepted request records exactly one
\* Response with the is_correct of the selected option and increases
\* current_index by exactly 1.
C25_SubmitAnswer ==
    [][request'.op = "submit_answer" =>
          LET sid == request'.session_id
              o == request'.option_id
              q == request'.question_id
          IN  IF sid \notin 1..Len(sessions)
              THEN /\ reply'.status = 404
                   /\ responses' = responses
                   /\ sessions' = sessions
              ELSE IF ~ValidOption(o, q)
              THEN /\ reply'.status = 400
                   /\ responses' = responses
                   /\ sessions' = sessions
              ELSE /\ Len(responses') = Len(responses) + 1
                   /\ SubSeq(responses', 1, Len(responses)) = responses
                   /\ responses'[Len(responses')].is_correct = Option(o).is_correct
                   /\ sessions'[sid].current_index =
                          sessions[sid].current_index + 1]_vars

\* the rejections of submit_answer change nothing
C25_RejectUnchanged ==
    [][(request'.op = "submit_answer" /\ reply'.status \in {400, 404}) =>
          /\ responses' = responses
          /\ sessions' = sessions
          /\ reply'.status = 404 <=> request'.session_id \notin 1..Len(sessions)
          /\ ~ValidOption(request'.option_id, request'.question_id)
                \/ reply'.status = 404]_vars

====
